---------------------------- MODULE Spec2Model ----------------------------
(***************************************************************************)
(* A model of the crawl-to-chunk ingestion code of the repository:         *)
(*   src/src/crawler.py       WebCrawler (URL policy, BFS crawl loop)      *)
(*   src/src/text_cleaner.py  TextCleaner (cleaning, sentence chunker)     *)
(*   src/src/pipeline.py      IndexingPipeline.run                         *)
(*                                                                         *)
(* Strings are sequences of tokens.  A URL is a sequence of URL tokens     *)
(* ("http", "://", "example.com", "/", "a", ...); the tokens are chosen so *)
(* that every character the code looks for (':', '/', '#', '[', the        *)
(* exclusion patterns) is a token of its own or lies in a token named      *)
(* below.  A text is a sequence of characters.                             *)
(***************************************************************************)
EXTENDS Integers, Sequences, FiniteSets, TLC

(***************************************************************************)
(* Bounds of the model.                                                    *)
(***************************************************************************)
\* Most <a href> elements on one fetched page.
MaxLinks == 2
\* Largest max_pages a crawler is constructed with.
MaxPagesCap == 3
\* Most path tokens of a candidate URL handed to is_valid_url.
MaxPathLen == 2
\* Most characters of a text handed to the cleaner and the chunker.
MaxTextLen == 5
\* Largest chunk_size the chunker is called with.
MaxChunkSize == 3

(***************************************************************************)
(* Generic helpers on sequences.                                           *)
(***************************************************************************)
Range(s) == {s[i] : i \in 1..Len(s)}

Min(a, b) == IF a <= b THEN a ELSE b

\* str.find for a class of tokens: the first index holding one of T, 0 if none.
FirstIn(s, T) ==
  IF \E i \in 1..Len(s) : s[i] \in T
  THEN CHOOSE i \in 1..Len(s) : s[i] \in T /\ \A j \in 1..(i-1) : s[j] \notin T
  ELSE 0

NoDuplicates(s) == \A i, j \in 1..Len(s) : i # j => s[i] # s[j]

\* All sequences over S of length at most n.
RECURSIVE SeqsUpTo(_, _)
SeqsUpTo(S, n) ==
  IF n = 0 THEN {<<>>}
  ELSE LET shorter == SeqsUpTo(S, n - 1)
       IN  shorter \cup {Append(s, x) : s \in shorter, x \in S}

\* The sequences without repetition over S of length at most n.
SeqsNoRep(S, n) == {s \in SeqsUpTo(S, n) : NoDuplicates(s)}

(***************************************************************************)
(* URL strings: urllib.parse as crawler.py uses it.                        *)
(***************************************************************************)
\* str.lower() on one token.
Lower(t) ==
  CASE t = "HTTP"        -> "http"
    [] t = "LOGOUT"      -> "logout"
    [] t = "EXAMPLE.com" -> "example.com"
    [] OTHER             -> t

LowerStr(s) == [i \in 1..Len(s) |-> Lower(s[i])]

\* Tokens made only of scheme characters (letters, digits, '+', '-', '.').
SchemeChars(t) ==
  t \in {"http", "https", "ftp", "HTTP", "example.com", "other.com",
         "EXAMPLE.com", "a", "b", "page", "login", "LOGOUT", ".pdf", "top", "80"}

\* Tokens whose first character is an ASCII letter.
StartsAlpha(t) == SchemeChars(t) /\ t \notin {".pdf", "80"}

\* Tokens holding a ':' and what follows the ':' in them.
ColonTokens == {"://", ":80"}
AfterColon(t) == IF t = "://" THEN "//" ELSE "80"

\* Tokens holding one of the netloc delimiters '/', '?', '#'.
NetlocDelims == {"/", "#", "://", "//"}

\* urlsplit's scheme step: i = url.find(':'), the scheme_chars loop, lower().
SplitSchemeAt(u, i) ==
  IF /\ i >= 2
     /\ StartsAlpha(u[1])
     /\ \A j \in 1..(i-1) : SchemeChars(u[j])
  THEN [scheme |-> LowerStr(SubSeq(u, 1, i - 1)),
        url    |-> <<AfterColon(u[i])>> \o SubSeq(u, i + 1, Len(u))]
  ELSE [scheme |-> <<>>, url |-> u]

SplitScheme(u) == SplitSchemeAt(u, FirstIn(u, ColonTokens))

\* url[:2] == '//' and the text after it.
StartsWithSlashSlash(url) ==
  \/ Len(url) >= 1 /\ url[1] = "//"
  \/ Len(url) >= 2 /\ url[1] = "/" /\ url[2] = "/"

AfterSlashSlash(url) ==
  IF url[1] = "//" THEN Tail(url) ELSE Tail(Tail(url))

\* _splitnetloc: the netloc runs to the first '/', '?' or '#', at d.
SplitNetlocAt(rest, d) ==
  IF d = 0 THEN [netloc |-> rest, url |-> <<>>]
  ELSE IF rest[d] = "://"
  THEN [netloc |-> SubSeq(rest, 1, d - 1) \o <<":">>,
        url    |-> <<"//">> \o SubSeq(rest, d + 1, Len(rest))]
  ELSE [netloc |-> SubSeq(rest, 1, d - 1),
        url    |-> SubSeq(rest, d, Len(rest))]

\* urlsplit's netloc step: only a url that starts with '//' has a netloc.
NetlocOf(url) ==
  IF StartsWithSlashSlash(url)
  THEN SplitNetlocAt(AfterSlashSlash(url), FirstIn(AfterSlashSlash(url), NetlocDelims))
  ELSE [netloc |-> <<>>, url |-> url]

\* urlsplit's last steps: the IPv6 bracket check raises ValueError for a '[' in
\* the netloc with no ']' (no token holds a ']'); the fragment is cut at the
\* first '#', at h.
ParseResult(scheme, n, h) ==
  IF "[" \in Range(n.netloc)
  THEN [raises |-> TRUE, scheme |-> <<>>, netloc |-> <<>>,
        path |-> <<>>, fragment |-> <<>>]
  ELSE [raises   |-> FALSE,
        scheme   |-> scheme,
        netloc   |-> n.netloc,
        path     |-> IF h = 0 THEN n.url ELSE SubSeq(n.url, 1, h - 1),
        fragment |-> IF h = 0 THEN <<>> ELSE SubSeq(n.url, h + 1, Len(n.url))]

ParseAfterNetloc(scheme, n) == ParseResult(scheme, n, FirstIn(n.url, {"#"}))

ParseAfterScheme(s, default_scheme) ==
  ParseAfterNetloc(IF s.scheme = <<>> THEN default_scheme ELSE s.scheme,
                   NetlocOf(s.url))

\* urlparse(url, default_scheme)
urlparse(u, default_scheme) == ParseAfterScheme(SplitScheme(u), default_scheme)

\* urlunparse for the schemes that use a netloc.
urlunparse(scheme, netloc, path, fragment) ==
  scheme \o <<"://">> \o netloc
    \o (IF path # <<>> /\ path[1] \notin {"/", "//"} THEN <<"/">> ELSE <<>>)
    \o path
    \o (IF fragment # <<>> THEN <<"#">> \o fragment ELSE <<>>)

\* The schemes of urllib.parse.uses_relative that the tokens can spell.
uses_relative == {<<"http">>, <<"https">>, <<"ftp">>}

\* bpath without its last segment (base_parts with the last item deleted).
BaseDir(bpath) ==
  LET S == {i \in 1..Len(bpath) : bpath[i] = "/"}
  IN  IF S = {} THEN <<>>
      ELSE SubSeq(bpath, 1, CHOOSE i \in S : \A j \in S : j <= i)

\* urljoin after both urlparse calls: b is the parsed base, r the parsed url.
JoinParsed(b, r, url) ==
  IF b.raises \/ r.raises THEN [raises |-> TRUE, url |-> <<>>]
  ELSE IF r.scheme # b.scheme \/ r.scheme \notin uses_relative
  THEN [raises |-> FALSE, url |-> url]
  ELSE IF r.netloc # <<>>
  THEN [raises |-> FALSE,
        url |-> urlunparse(r.scheme, r.netloc, r.path, r.fragment)]
  ELSE [raises |-> FALSE,
        url |-> urlunparse(r.scheme, b.netloc,
                           IF r.path = <<>> THEN b.path
                           ELSE IF r.path[1] = "/" THEN r.path
                           ELSE BaseDir(b.path) \o r.path,
                           r.fragment)]

JoinBase(b, url) == JoinParsed(b, urlparse(url, b.scheme), url)

\* urljoin(base, url): the absolute form of a link found on page `base`.
urljoin(base, url) ==
  IF url = <<>> THEN [raises |-> FALSE, url |-> base]
  ELSE JoinBase(urlparse(base, <<>>), url)

\* absolute_url.split('#')[0]
StripFragment(u) ==
  LET h == FirstIn(u, {"#"})
  IN  IF h = 0 THEN u ELSE SubSeq(u, 1, h - 1)

(***************************************************************************)
(* WebCrawler: construction (crawler.py 22-36) and the URL policy.         *)
(***************************************************************************)
\* The base_url every crawler of the model is constructed with.
base_url == <<"http", "://", "example.com">>

\* self.base_domain = urlparse(base_url).netloc
base_domain == urlparse(base_url, <<>>).netloc

exclude_patterns == {".pdf", ".zip", ".exe", "logout", "login", "#"}

\* `pattern in url.lower()`: no pattern straddles two tokens, and a token holds
\* a pattern only by being that pattern.
PatternInNoLower(pattern, url) == \E i \in 1..Len(url) : url[i] = pattern
PatternIn(pattern, url) == \E i \in 1..Len(url) : Lower(url[i]) = pattern

\* The comparison of line 45, on the netloc as urlparse returns it.
SameDomainByHost(netloc) == \E i \in 1..Len(netloc) : netloc[i] = "example.com"
SameDomain(netloc) == netloc = base_domain

\* Lines 43-52, the body of the try block: "raised" when urlparse raises.
TryBody(parsed, url) ==
  IF parsed.raises THEN "raised"
  ELSE IF ~SameDomain(parsed.netloc) THEN "false"
  ELSE IF \E pattern \in exclude_patterns : PatternIn(pattern, url) THEN "false"
  ELSE IF parsed.scheme \in {<<"http">>, <<"https">>} THEN "true"
  ELSE "false"

\* Lines 53-54: `except: return False`.
ExceptPropagates(r) == r
ExceptReturnsFalse(r) == IF r = "raised" THEN "false" ELSE r

\* WebCrawler.is_valid_url: what the call gives its caller.
is_valid_url_result(url) == ExceptReturnsFalse(TryBody(urlparse(url, <<>>), url))

is_valid_url(url) == is_valid_url_result(url) = "true"

(***************************************************************************)
(* TextCleaner (text_cleaner.py): a text is a sequence of characters.      *)
(***************************************************************************)
\* The characters of the model's texts: word characters, the space, a
\* sentence terminator, and a character line 43 removes.
Chars == {"a", "b", " ", ".", "#"}

\* \s of the regular expressions, and what str.strip() removes.
IsSpace(c) == c = " "

\* The class [.!?] of line 68.
IsTerminator(c) == c \in {".", "!", "?"}

\* The class [.!?,;:] of line 46.
IsPunctuation(c) == c \in {".", "!", "?", ",", ";", ":"}

\* The class [\w\s.!?,;:'-] that line 43 keeps.
IsKept(c) == c \in {"a", "b", " ", ".", "!", "?", ",", ";", ":", "'", "-"}

\* str.strip()
StripBetween(s, idx) ==
  IF idx = {} THEN <<>>
  ELSE SubSeq(s, CHOOSE i \in idx : \A j \in idx : i <= j,
                 CHOOSE i \in idx : \A j \in idx : j <= i)

Strip(s) == StripBetween(s, {i \in 1..Len(s) : ~IsSpace(s[i])})

\* Line 40: re.sub(r'\s+', ' ', text)
\* The characters of a text with their position and their neighbours ("" at
\* either end): what a regular expression looks at around a position.
Around(text) ==
  [i \in 1..Len(text) |->
     [c |-> text[i], i |-> i,
      prev |-> IF i > 1 THEN text[i-1] ELSE "",
      next |-> IF i < Len(text) THEN text[i+1] ELSE ""]]

OpensSpaceRunOrOther(p) == ~(IsSpace(p.c) /\ IsSpace(p.prev))
SpaceRunToBlank(kept) ==
  [k \in 1..Len(kept) |-> IF IsSpace(kept[k].c) THEN " " ELSE kept[k].c]
CollapseSpaces(text) ==
  SpaceRunToBlank(SelectSeq(Around(text), OpensSpaceRunOrOther))

\* Line 43: re.sub(r'[^\w\s.!?,;:\'-]', '', text)
RemoveSpecial(text) == SelectSeq(text, IsKept)

\* Line 46: re.sub(r'[.!?,;:]{2,}', '.', text): a run of two or more
\* punctuation characters becomes one '.', a single one stays as it is.
OpensPunctuationRunOrOther(p) ==
  ~(IsPunctuation(p.c) /\ IsPunctuation(p.prev))
PunctuationRunToDot(kept) ==
  [k \in 1..Len(kept) |->
     IF IsPunctuation(kept[k].c) /\ IsPunctuation(kept[k].next)
     THEN "." ELSE kept[k].c]
CollapsePunctuation(text) ==
  PunctuationRunToDot(SelectSeq(Around(text), OpensPunctuationRunOrOther))

\* TextCleaner.clean_text (lines 29-48)
clean_text(text) ==
  Strip(CollapsePunctuation(RemoveSpecial(CollapseSpaces(text))))

\* Line 68: re.split(r'[.!?]+', text): the pieces between the runs of
\* terminators, the empty ones included.
OpensPiece(p) == ~IsTerminator(p.c) /\ (p.prev = "" \/ IsTerminator(p.prev))
PieceEnd(text, i) ==
  CHOOSE j \in i..Len(text) :
     /\ j = Len(text) \/ IsTerminator(text[j+1])
     /\ \A m \in i..j : ~IsTerminator(text[m])
PiecesFrom(text, starts) ==
  [k \in 1..Len(starts) |->
     SubSeq(text, starts[k].i, PieceEnd(text, starts[k].i))]
re_split(text) ==
  (IF text = <<>> \/ IsTerminator(text[1]) THEN << <<>> >> ELSE <<>>)
    \o PiecesFrom(text, SelectSeq(Around(text), OpensPiece))
    \o (IF text # <<>> /\ IsTerminator(text[Len(text)]) THEN << <<>> >> ELSE <<>>)

\* Line 69: [s.strip() for s in sentences if s.strip()]
StripEach(pieces) == [i \in 1..Len(pieces) |-> Strip(pieces[i])]
IsNonEmpty(piece) == piece # <<>>
Sentences(text) == SelectSeq(StripEach(re_split(text)), IsNonEmpty)

\* Line 76: test_chunk
TestChunk(current_chunk, sentence) ==
  IF current_chunk # <<>> THEN current_chunk \o <<" ">> \o sentence ELSE sentence

\* Line 78: if len(test_chunk) <= chunk_size
FitsAlways(test_chunk, chunk_size) == TRUE
Fits(test_chunk, chunk_size) == Len(test_chunk) <= chunk_size

\* Lines 82-83: save the current chunk if it is not empty.
Flush(chunks, current_chunk) ==
  IF current_chunk # <<>> THEN Append(chunks, current_chunk) ELSE chunks

\* Line 88: chunks[-1][-overlap:] if len(chunks[-1]) >= overlap else chunks[-1].
\* The slice s[-k:] is the last k characters for k > 0 and, -0 being 0, the
\* whole of s for k = 0.
NegativeSlice(s, k) == IF k = 0 THEN s ELSE SubSeq(s, Len(s) - k + 1, Len(s))

OverlapText(last_chunk, overlap_) ==
  IF Len(last_chunk) >= overlap_ THEN NegativeSlice(last_chunk, overlap_)
  ELSE last_chunk

\* Lines 86-91: the buffer a flush leaves behind.
StartNewChunk(chunks, sentence, overlap_) ==
  IF chunks # <<>>
  THEN OverlapText(chunks[Len(chunks)], overlap_) \o <<" ">> \o sentence
  ELSE sentence

\* Lines 94-95: add the last chunk.
FinalFlush(chunks, current_chunk) == Flush(chunks, current_chunk)

\* Lines 74-97: the packing loop over the sentences from index i on.
RECURSIVE Pack(_, _, _, _, _, _)
Pack(sentences, i, chunks, current_chunk, chunk_size_, overlap_) ==
  IF i > Len(sentences) THEN FinalFlush(chunks, current_chunk)
  ELSE IF Fits(TestChunk(current_chunk, sentences[i]), chunk_size_)
  THEN Pack(sentences, i + 1, chunks, TestChunk(current_chunk, sentences[i]),
            chunk_size_, overlap_)
  ELSE Pack(sentences, i + 1, Flush(chunks, current_chunk),
            StartNewChunk(Flush(chunks, current_chunk), sentences[i], overlap_),
            chunk_size_, overlap_)

\* TextCleaner.chunk_text (lines 50-97)
chunk_text(text, chunk_size_, overlap_) ==
  Pack(Sentences(text), 1, <<>>, <<>>, chunk_size_, overlap_)

\* Line 116: if len(cleaned_content) < 50: continue
MinContentLength == 50
TooShortNever(cleaned) == FALSE
TooShort(cleaned) == Len(cleaned) < MinContentLength

\* Lines 123-130: the entries of one page, page_chunks being its chunks.
EntriesFromOne(doc, page_chunks) ==
  [k \in 1..Len(page_chunks) |->
     [url |-> doc.url, title |-> doc.title, content |-> page_chunks[k],
      chunk_index |-> k, total_chunks |-> Len(page_chunks)]]
EntriesOf(doc, page_chunks) ==
  [k \in 1..Len(page_chunks) |->
     [url |-> doc.url, title |-> doc.title, content |-> page_chunks[k],
      chunk_index |-> k - 1, total_chunks |-> Len(page_chunks)]]

\* TextCleaner.process_documents (lines 99-133), from the n-th document on;
\* size and ov are self.chunk_size and self.overlap.
RECURSIVE process_documents(_, _, _, _, _)
process_documents(docs, n, size, ov, processed_docs) ==
  IF n > Len(docs) THEN processed_docs
  ELSE IF TooShort(clean_text(docs[n].content))
  THEN process_documents(docs, n + 1, size, ov, processed_docs)
  ELSE process_documents(docs, n + 1, size, ov,
         processed_docs \o
           EntriesOf(docs[n], chunk_text(clean_text(docs[n].content), size, ov)))

(***************************************************************************)
(* cleaner.py: the fixed-width cleaner the indexing pipeline calls.        *)
(***************************************************************************)
\* process_content's defaults (cleaner.py line 64-65).
DefaultChunkSize == 500
DefaultOverlap == 50

\* cleaner.py line 27: the class [\w\s.,!?\-():;] that is kept.
CleanerIsKept(c) ==
  c \in {"a", "b", " ", ".", ",", "!", "?", "-", "(", ")", ":", ";"}

\* cleaner.TextCleaner.clean_text (lines 13-38).  No page content here holds
\* "http", "www" or "@", so the substitutions of lines 30 and 33 match nothing.
cleaner_clean_text(content) ==
  Strip(SelectSeq(CollapseSpaces(content), CleanerIsKept))

\* cleaner.TextCleaner.chunk_text (lines 53-61): the slices
\* cleaned[i:i + size] for i = 0, step, 2*step, ..., the blank ones dropped.
RECURSIVE FixedWidth(_, _, _, _, _)
FixedWidth(cleaned, i, size, step, out) ==
  IF i >= Len(cleaned) THEN out
  ELSE FixedWidth(cleaned, i + step, size, step,
                  IF Strip(SubSeq(cleaned, i + 1, Min(i + size, Len(cleaned)))) # <<>>
                  THEN Append(out, SubSeq(cleaned, i + 1, Min(i + size, Len(cleaned))))
                  ELSE out)

cleaner_chunk_text(cleaned, size, overlap_) ==
  FixedWidth(cleaned, 0, size, size - overlap_, <<>>)

\* cleaner.TextCleaner.process_content (lines 64-79)
process_content(content) ==
  cleaner_chunk_text(cleaner_clean_text(content), DefaultChunkSize, DefaultOverlap)

(***************************************************************************)
(* State.                                                                  *)
(***************************************************************************)
VARIABLES
  \* WebCrawler fields and the locals of crawl()
  max_pages,      \* self.max_pages
  visited_urls,   \* self.visited_urls
  crawled_data,   \* self.crawled_data: the page records, here their urls
  to_visit,       \* crawl()'s frontier
  url,            \* crawl()'s loop variable: the URL dequeued last
  pc,             \* "loop" | "fetch" | "done": where crawl() stands
  runs,           \* the number of crawl() calls entered on this crawler
  site,           \* the site crawled: <<page url, its hrefs>> pairs; {} for a
                  \* site whose pages are made up as they are fetched
  \* what the run did and what the site served (history)
  first_enqueued, \* the URLs put on to_visit, in the order of their first time
  delays,         \* per fetch attempt, how often its iteration ran time.sleep
  attempts,       \* the fetch attempts in order: [url, ok]
  edges,          \* <<page, target>>: the policy-eligible links of served pages
  skipped,        \* the URLs dequeued while already visited, in order
  cut,            \* the pages whose link discovery an exception ended early
  \* URL policy called on its own
  candidate,      \* the string handed to is_valid_url
  verdict,        \* "none" | "true" | "false" | "raised"
  \* TextCleaner called on a text
  text,           \* the raw text
  input,          \* the text handed to chunk_text
  chunk_size,     \* the chunk_size argument
  overlap,        \* the overlap argument
  chunks,         \* the list chunk_text returned
  cstate,         \* "idle" | "raw" | "cleaned" | "chunked"
  \* IndexingPipeline.run and what it acts on
  ppc,            \* "idle" | "crawl" | "chunk" | "embed" | "store" | "persist"
                  \* | "manifest" | "done": where run() stands
  result,         \* "none" | "False" | "True" | "raised": how run() ended
  pages,          \* run()'s pages: [url, title, content]
  documents,      \* run()'s documents: [id, content, source]
  all_chunks,     \* run()'s all_chunks
  embeddings,     \* run()'s embeddings
  store,          \* the vector database: the documents added, by id
  manifest,       \* metadata.json under db_path: <<>> (no file) or <<content>>
  calls,          \* the collaborator calls and file writes of run(), in order
  \* TextCleaner.process_documents, EmbeddingsGenerator, VectorDatabase and
  \* the /api/crawl handler that chains them
  docs_in,        \* process_documents' argument: [url, title, content]
  processed_data, \* the entries process_documents returned; embed_documents
                  \* adds 'embedding' to them in place
  dstate,         \* "idle" | "ready" | "processed"
  texts,          \* generate_embeddings_batch's texts
  batch_size,     \* its batch_size
  batch_i,        \* its loop variable i
  emb_list,       \* its embeddings list
  out_of_order,   \* some response.data so far was not in index order (history)
  estate,         \* "idle" | "ready" | "batching" | "returned" | "raised"
  upsert_size,    \* upsert_vectors' batch_size
  upsert_i,       \* the number of documents upsert_vectors has gone through
  vectors_to_upsert, \* its pending batch
  sent,           \* the batches handed to index.upsert, in order (history)
  index,          \* the Pinecone index: the vectors upserted, by id
  ustate,         \* "idle" | "ready" | "upserting" | "returned" | "raised"
  apc,            \* "idle" | "crawl" | "process" | "embed" | "store" | "stats"
                  \* | "done": where crawl_website() stands
  response,       \* crawl_website's answer: [code, status, ...] or <<>>
  api_calls       \* the provider and index requests made, in order

crawlVars == <<max_pages, visited_urls, crawled_data, to_visit, url, pc, runs,
               site, first_enqueued, delays, attempts, edges, skipped, cut>>
urlVars == <<candidate, verdict>>
chunkVars == <<text, input, chunk_size, overlap, chunks, cstate>>
pipeVars == <<ppc, result, pages, documents, all_chunks, embeddings, store,
              manifest, calls>>
docVars == <<docs_in, processed_data, dstate>>
embedVars == <<texts, batch_size, batch_i, emb_list, out_of_order, estate>>
upsertVars == <<upsert_size, upsert_i, vectors_to_upsert, sent, index, ustate>>
apiVars == <<docVars, embedVars, upsertVars, apc, response, api_calls>>

(***************************************************************************)
(* The site: what a fetch of a page may return.                            *)
(***************************************************************************)
\* The href values a served page may carry.
Hrefs ==
  { <<"/", "a">>,                                  \* root-relative
    <<"b">>,                                       \* relative to the page
    <<"/", "a", "#", "top">>,                     \* with a fragment
    <<"http", "://", "other.com", "/", "a">>,     \* another domain
    <<"http", "://", "[">> }                      \* urljoin raises ValueError

\* The <a href> lists of one page, in document order.
LinkLists == SeqsNoRep(Hrefs, MaxLinks)

\* What a fetch of page u can be answered with: any list, or what the site
\* holds under u (nothing: the fetch can only fail).
Served(u) ==
  IF site = {} THEN LinkLists ELSE {p[2] : p \in {q \in site : q[1] = u}}

\* The enqueue history after the frontier has become queue.
RECURSIVE NoteEnqueued(_, _)
NoteEnqueued(hist, queue) ==
  IF queue = <<>> THEN hist
  ELSE NoteEnqueued(IF Head(queue) \in Range(hist) THEN hist
                    ELSE Append(hist, Head(queue)),
                    Tail(queue))

(***************************************************************************)
(* WebCrawler.crawl (crawler.py 92-144).                                   *)
(***************************************************************************)
\* Line 101: while to_visit and len(self.visited_urls) < self.max_pages
LoopConditionNoCap == to_visit # <<>>
LoopCondition == to_visit # <<>> /\ Cardinality(visited_urls) < max_pages

\* Line 104: if url in self.visited_urls: continue
AlreadyVisitedNever(u) == FALSE
AlreadyVisited(u) == u \in visited_urls

\* Line 107: self.visited_urls.add(url), before the try block
MarkVisitedNot(u) == visited_urls
MarkVisited(u) == visited_urls \cup {u}

\* Lines 138-141: both except clauses only log; the while loop goes on.
AfterFailureAbort == "done"
AfterFailure == "loop"

\* Lines 125-133: the link loop.  An exception (urljoin's ValueError) leaves
\* the loop for the except clause of line 140: the links after it are lost.
\* Line 132: if self.is_valid_url(absolute_url) and absolute_url not in
\* self.visited_urls
SurvivesUnchecked(absolute_url) == absolute_url \notin visited_urls
Survives(absolute_url) ==
  is_valid_url(absolute_url) /\ absolute_url \notin visited_urls

RECURSIVE EnqueueLinks(_, _, _)
\* Lines 127-133 for one href, joined being urljoin(url, href).
EnqueueJoined(page_url, hrefs, queue, joined) ==
  IF joined.raises THEN [to_visit |-> queue, raised |-> TRUE]
  ELSE EnqueueLinks(page_url, Tail(hrefs),
         IF Survives(StripFragment(joined.url))
         THEN Append(queue, StripFragment(joined.url))
         ELSE queue)

EnqueueLinks(page_url, hrefs, queue) ==
  IF hrefs = <<>> THEN [to_visit |-> queue, raised |-> FALSE]
  ELSE EnqueueJoined(page_url, hrefs, queue, urljoin(page_url, Head(hrefs)))

\* The link graph of the site: the policy-eligible targets of a page's hrefs,
\* each href taken on its own.
TargetOf(joined) ==
  IF joined.raises THEN {}
  ELSE IF is_valid_url(StripFragment(joined.url)) THEN {StripFragment(joined.url)}
  ELSE {}

EligibleTargets(page_url, hrefs) ==
  UNION {TargetOf(urljoin(page_url, hrefs[i])) : i \in 1..Len(hrefs)}

\* Lines 101-107: one pass of the loop head.
Dequeue ==
  /\ pc = "loop"
  /\ LoopCondition
  /\ url' = Head(to_visit)
  /\ to_visit' = Tail(to_visit)
  /\ IF AlreadyVisited(Head(to_visit))
     THEN /\ skipped' = Append(skipped, Head(to_visit))
          /\ UNCHANGED <<visited_urls, pc>>
     ELSE /\ visited_urls' = MarkVisited(Head(to_visit))
          /\ pc' = "fetch"
          /\ UNCHANGED skipped
  /\ UNCHANGED <<max_pages, crawled_data, runs, site, first_enqueued, delays,
                 attempts, edges, cut, urlVars, chunkVars, pipeVars, apiVars>>

\* Lines 109-136: the fetch succeeds; record the page, queue its links, sleep.
FetchOk ==
  /\ pc = "fetch"
  /\ \E hrefs \in Served(url) :
       /\ to_visit' = EnqueueLinks(url, hrefs, to_visit).to_visit
       /\ first_enqueued' =
            NoteEnqueued(first_enqueued,
                         EnqueueLinks(url, hrefs, to_visit).to_visit)
       /\ delays' = Append(delays, IF EnqueueLinks(url, hrefs, to_visit).raised
                                   THEN 0 ELSE 1)
       /\ cut' = IF EnqueueLinks(url, hrefs, to_visit).raised
                 THEN cut \cup {url} ELSE cut
       /\ edges' = edges \cup {<<url, t>> : t \in EligibleTargets(url, hrefs)}
  /\ crawled_data' = Append(crawled_data, url)
  /\ attempts' = Append(attempts, [url |-> url, ok |-> TRUE])
  /\ pc' = "loop"
  /\ UNCHANGED <<max_pages, visited_urls, url, runs, site, skipped,
                 urlVars, chunkVars, pipeVars, apiVars>>

\* Lines 116-117 raise (timeout, connection error, non-2xx): lines 138-141.
FetchFail ==
  /\ pc = "fetch"
  /\ attempts' = Append(attempts, [url |-> url, ok |-> FALSE])
  /\ delays' = Append(delays, 0)
  /\ pc' = AfterFailure
  /\ UNCHANGED <<max_pages, visited_urls, crawled_data, to_visit, url, runs,
                 site, first_enqueued, edges, skipped, cut, urlVars, chunkVars, pipeVars, apiVars>>

\* Lines 143-144: the loop condition fails; return self.crawled_data.
Finish ==
  /\ pc = "loop"
  /\ ~LoopCondition
  /\ pc' = "done"
  /\ UNCHANGED <<max_pages, visited_urls, crawled_data, to_visit, url, runs,
                 site, first_enqueued, delays, attempts, edges, skipped, cut, urlVars, chunkVars, pipeVars,
                 apiVars>>

\* A fresh crawler entering crawl(): lines 31-36 and 99.
CrawlStartOn(sites, caps) ==
  /\ max_pages \in caps
  /\ site \in sites
  /\ visited_urls = {}
  /\ crawled_data = <<>>
  /\ to_visit = <<base_url>>
  /\ url = <<>>
  /\ pc = "loop"
  /\ runs = 1
  /\ first_enqueued = <<base_url>>
  /\ delays = <<>>
  /\ attempts = <<>>
  /\ edges = {}
  /\ skipped = <<>>
  /\ cut = {}

CrawlStart == CrawlStartOn({{}}, 0..MaxPagesCap)

\* A constructed crawler on which crawl() is not running.
CrawlIdle ==
  /\ max_pages = MaxPagesCap
  /\ visited_urls = {}
  /\ crawled_data = <<>>
  /\ to_visit = <<>>
  /\ url = <<>>
  /\ pc = "idle"
  /\ runs = 0
  /\ site = {}
  /\ first_enqueued = <<>>
  /\ delays = <<>>
  /\ attempts = <<>>
  /\ edges = {}
  /\ skipped = <<>>
  /\ cut = {}

UrlIdle == candidate = <<>> /\ verdict = "none"

ChunkIdle ==
  /\ text = <<>>
  /\ input = <<>>
  /\ chunk_size = 1
  /\ overlap = 0
  /\ chunks = <<>>
  /\ cstate = "idle"

vars == <<crawlVars, urlVars, chunkVars, pipeVars, apiVars>>

\* No indexing pipeline has been constructed.
PipeIdle ==
  /\ ppc = "idle"
  /\ result = "none"
  /\ pages = <<>>
  /\ documents = <<>>
  /\ all_chunks = <<>>
  /\ embeddings = <<>>
  /\ store = {}
  /\ manifest = <<>>
  /\ calls = <<>>

\* No request is being handled and no cleaner, generator or index is in use.
ApiIdle ==
  /\ docs_in = <<>>
  /\ processed_data = <<>>
  /\ dstate = "idle"
  /\ texts = <<>>
  /\ batch_size = 1
  /\ batch_i = 0
  /\ emb_list = <<>>
  /\ out_of_order = FALSE
  /\ estate = "idle"
  /\ upsert_size = 1
  /\ upsert_i = 0
  /\ vectors_to_upsert = <<>>
  /\ sent = <<>>
  /\ index = {}
  /\ ustate = "idle"
  /\ apc = "idle"
  /\ response = <<>>
  /\ api_calls = <<>>

InitCrawl == CrawlStart /\ UrlIdle /\ ChunkIdle /\ PipeIdle /\ ApiIdle

NextCrawl == Dequeue \/ FetchOk \/ FetchFail \/ Finish

\* One crawl() run of a fresh crawler over every site the bounds allow.
SpecCrawl == InitCrawl /\ [][NextCrawl]_vars

\* One crawl() run of a fresh crawler whose max_pages may be negative as well:
\* __init__ takes any integer (line 32).
InitAnyCap ==
  /\ CrawlStartOn({{}}, -1..MaxPagesCap)
  /\ UrlIdle /\ ChunkIdle /\ PipeIdle /\ ApiIdle

SpecAnyCap == InitAnyCap /\ [][NextCrawl]_vars

\* crawl() called again on the same crawler, after it has returned.  Line 99
\* builds a new to_visit; self.visited_urls and self.crawled_data are assigned
\* in __init__ only (lines 34-35), so the call starts with what they hold.
MaxRuns == 2

CrawlAgain ==
  /\ pc = "done"
  /\ runs < MaxRuns
  /\ runs' = runs + 1
  /\ to_visit' = <<base_url>>
  /\ pc' = "loop"
  /\ UNCHANGED <<max_pages, visited_urls, crawled_data, url, site,
                 first_enqueued, delays, attempts, edges, skipped, cut, urlVars, chunkVars, pipeVars, apiVars>>

NextRecrawl == Dequeue \/ FetchOk \/ FetchFail \/ Finish \/ CrawlAgain

SpecRecrawl == InitCrawl /\ [][NextRecrawl]_vars

\* crawl() over sites given beforehand: four pages, each carrying one of a
\* few link lists, one of them with an href urljoin cannot parse.
MaxSitePages == 4

Href(name) == <<"/", name>>

SiteUrl(name) == base_url \o Href(name)

SitePages == {base_url, SiteUrl("a"), SiteUrl("b"), SiteUrl("page")}

SiteLinkLists ==
  { <<>>,
    <<Href("a"), <<"http", "://", "[">>, Href("b")>>,
    <<Href("page"), Href("b")>>,
    <<Href("b"), Href("a")>> }

Sites == {{<<u, f[u]>> : u \in SitePages} : f \in [SitePages -> SiteLinkLists]}

InitSites ==
  /\ CrawlStartOn(Sites, 0..MaxSitePages)
  /\ UrlIdle /\ ChunkIdle /\ PipeIdle /\ ApiIdle

SpecSites == InitSites /\ [][NextCrawl]_vars

\* The sites of the end-to-end scenario: five pages of the root's domain, each
\* reachable from the root, with links to each other only.
ScenarioSites ==
  { { <<base_url, <<Href("a")>> >>,
      <<SiteUrl("a"), <<Href("b")>> >>,
      <<SiteUrl("b"), <<Href("page")>> >>,
      <<SiteUrl("page"), <<Href("top")>> >>,
      <<SiteUrl("top"), <<>> >> },
    { <<base_url, <<Href("a"), Href("b"), Href("page"), Href("top")>> >>,
      <<SiteUrl("a"), <<Href("b"), Href("a")>> >>,
      <<SiteUrl("b"), <<>> >>,
      <<SiteUrl("page"), <<Href("top")>> >>,
      <<SiteUrl("top"), <<Href("a")>> >> } }

\* A page text of 1200 characters that both cleaners leave as it is: words of
\* "a" only, or sentences of period characters each.
ScenarioText(period) ==
  [i \in 1..1200 |-> IF period > 0 /\ i % period = 0 THEN "." ELSE "a"]

ScenarioTexts == {ScenarioText(0), ScenarioText(100)}

\* The texts the pages of the site can hold: those of the scenario, or the
\* short ones given.
PageTextsOf(short_texts) == IF site = {} THEN short_texts ELSE ScenarioTexts

(***************************************************************************)
(* The URL policy on its own: is_valid_url applied to a candidate string.  *)
(***************************************************************************)
Prefixes == {<<>>, <<"http", "://">>, <<"https", "://">>, <<"ftp", "://">>,
             <<"HTTP", "://">>}
Netlocs == {<<>>, <<"example.com">>, <<"other.com">>, <<"EXAMPLE.com">>,
            <<"u@", "example.com">>, <<"example.com", ":80">>, <<"[">>}
PathTokens == {"/", "page", "login", "LOGOUT", ".pdf"}
Fragments == {<<>>, <<"#", "top">>}

Candidates ==
  {p \o n \o q \o f : p \in Prefixes, n \in Netlocs,
                      q \in SeqsUpTo(PathTokens, MaxPathLen), f \in Fragments}

ValidateUrl ==
  /\ verdict = "none"
  /\ verdict' = is_valid_url_result(candidate)
  /\ UNCHANGED <<candidate, crawlVars, chunkVars, pipeVars, apiVars>>

InitUrl == CrawlIdle /\ ChunkIdle /\ PipeIdle /\ ApiIdle /\ candidate \in Candidates /\ verdict = "none"

NextUrl == ValidateUrl

SpecUrl == InitUrl /\ [][NextUrl]_vars

(***************************************************************************)
(* The cleaner and the chunker on their own: chunk_text applied to a text, *)
(* as it is (tests.py 25-26) or after clean_text (process_documents).      *)
(***************************************************************************)
\* Line 113: cleaned_content = self.clean_text(doc['content'])
CleanText ==
  /\ cstate = "raw"
  /\ input' = clean_text(text)
  /\ cstate' = "cleaned"
  /\ UNCHANGED <<text, chunk_size, overlap, chunks, crawlVars, urlVars, pipeVars, apiVars>>

\* Line 120 and tests.py 26: chunks = self.chunk_text(...)
ChunkText ==
  /\ cstate \in {"raw", "cleaned"}
  /\ chunks' = chunk_text(input, chunk_size, overlap)
  /\ cstate' = IF cstate = "raw" THEN "chunked_raw" ELSE "chunked"
  /\ UNCHANGED <<text, input, chunk_size, overlap, crawlVars, urlVars, pipeVars, apiVars>>

InitChunk ==
  /\ CrawlIdle
  /\ UrlIdle
  /\ PipeIdle
  /\ ApiIdle
  /\ text \in SeqsUpTo(Chars, MaxTextLen)
  /\ input = text
  /\ chunk_size \in 1..MaxChunkSize
  /\ overlap \in 0..(chunk_size - 1)
  /\ chunks = <<>>
  /\ cstate = "raw"

NextChunk == CleanText \/ ChunkText

SpecChunk == InitChunk /\ [][NextChunk]_vars

(***************************************************************************)
(* TextCleaner.process_documents on its own, on a cleaner constructed with *)
(* the default or with a small chunk size.                                 *)
(***************************************************************************)
MaxDocs == 2

RECURSIVE Repeat(_, _)
Repeat(s, n) == IF n = 0 THEN <<>> ELSE s \o Repeat(s, n - 1)

\* A sentence of ten characters, terminator included.
TenChars == <<"a", "a", "a", "a", "a", "a", "a", "a", "a", ".">>

\* Page texts: a few words; 49 and 50 characters once cleaned (either side of
\* line 116); several sentences with spaces between them.
DocTexts ==
  { <<"a", " ", "b", ".">>,
    Repeat(TenChars, 4) \o Tail(TenChars),
    Repeat(TenChars, 5),
    Repeat(TenChars \o <<" ", " ">>, 6) }

DocUrls == {<<"http", "://", "example.com", "/", "a">>,
            <<"http", "://", "example.com", "/", "b">>}

DocTitles == {"Test Page 1", "Test Page 2"}

PageDocs == [url : DocUrls, title : DocTitles, content : DocTexts]

\* TextCleaner(chunk_size, overlap): the defaults of line 17, and a small
\* chunk size that splits the page texts above.
CleanerSettings == {<<500, 50>>, <<20, 5>>}

\* Lines 99-133: process_documents(documents)
ProcessDocuments ==
  /\ dstate = "ready"
  /\ processed_data' = process_documents(docs_in, 1, chunk_size, overlap, <<>>)
  /\ dstate' = "processed"
  /\ UNCHANGED <<docs_in, embedVars, upsertVars, apc, response, api_calls,
                 crawlVars, urlVars, chunkVars, pipeVars>>

InitDocs ==
  /\ CrawlIdle
  /\ UrlIdle
  /\ PipeIdle
  /\ text = <<>> /\ input = <<>> /\ chunks = <<>> /\ cstate = "idle"
  /\ \E setting \in CleanerSettings :
        chunk_size = setting[1] /\ overlap = setting[2]
  /\ docs_in \in SeqsUpTo(PageDocs, MaxDocs)
  /\ processed_data = <<>>
  /\ dstate = "ready"
  /\ texts = <<>> /\ batch_size = 1 /\ batch_i = 0 /\ emb_list = <<>>
  /\ out_of_order = FALSE
  /\ estate = "idle"
  /\ upsert_size = 1 /\ upsert_i = 0 /\ vectors_to_upsert = <<>>
  /\ sent = <<>>
  /\ index = {} /\ ustate = "idle"
  /\ apc = "idle" /\ response = <<>> /\ api_calls = <<>>

NextDocs == ProcessDocuments

SpecDocs == InitDocs /\ [][NextDocs]_vars

(***************************************************************************)
(* EmbeddingsGenerator (embeddings.py): generate_embeddings_batch, called  *)
(* directly or by embed_documents.  The provider answers a batch with one  *)
(* item per input, each carrying the input's index, in any order, or the   *)
(* request raises.                                                         *)
(***************************************************************************)
MaxTexts == 3
MaxBatch == 2

\* Line 58: batch_size: int = 100
DefaultBatchSize == 100

EmbedTexts == {<<"a">>, <<"b">>}

\* The provider's embedding of a text.
Vec(t) == <<"vec", t>>

\* response.data for a batch, its items in the order the provider chose.
ResponseData(batch, order) ==
  [k \in 1..Len(batch) |->
     [index |-> order[k] - 1, embedding |-> Vec(batch[order[k]])]]

\* Line 82: sorted(response.data, key=lambda x: x.index)
Unsorted(data) == data
SortedByIndex(data) ==
  [k \in 1..Len(data) |->
     data[CHOOSE m \in 1..Len(data) :
            Cardinality({n \in 1..Len(data) : data[n].index < data[m].index})
              = k - 1]]

\* Line 83: [item.embedding for item in batch_embeddings]
EmbeddingsOf(items) == [k \in 1..Len(items) |-> items[k].embedding]

\* Line 72: batch = texts[i:i + batch_size]
BatchAt(all_texts, i, size) ==
  SubSeq(all_texts, i + 1, Min(i + size, Len(all_texts)))

\* Lines 104-105: for doc, embedding in zip(documents, embeddings)
WithEmbedding(doc, embedding) ==
  [f \in DOMAIN doc \cup {"embedding"} |->
     IF f = "embedding" THEN embedding ELSE doc[f]]

Attach(docs, vectors) ==
  [k \in 1..Len(docs) |->
     IF k <= Len(vectors) THEN WithEmbedding(docs[k], vectors[k]) ELSE docs[k]]

Requested(op, ok) == Append(api_calls, [op |-> op, ok |-> ok])

\* The orders in which the provider may return the n items of a batch: every
\* order for a small batch, the sent order and its reverse for a larger one.
MaxShuffled == 4

ProviderOrders(n) ==
  IF n <= MaxShuffled THEN Permutations(1..n)
  ELSE {[k \in 1..n |-> k], [k \in 1..n |-> n + 1 - k]}

\* Lines 101-102 and 69: embed_documents collects the contents and calls
\* generate_embeddings_batch with the default batch size.
EmbedStart ==
  /\ estate = "ready"
  /\ texts' = [k \in 1..Len(processed_data) |-> processed_data[k].content]
  /\ batch_size' = DefaultBatchSize
  /\ batch_i' = 0
  /\ emb_list' = <<>>
  /\ estate' = "batching_documents"
  /\ UNCHANGED <<out_of_order, docVars, upsertVars, apc, response, api_calls,
                 crawlVars, urlVars, chunkVars, pipeVars>>

\* Lines 71-83: one batch, answered.
EmbedBatchOk ==
  /\ estate \in {"batching", "batching_documents"}
  /\ batch_i < Len(texts)
  /\ \E order \in ProviderOrders(Len(BatchAt(texts, batch_i, batch_size))) :
        /\ emb_list' = emb_list \o
             EmbeddingsOf(SortedByIndex(
               ResponseData(BatchAt(texts, batch_i, batch_size), order)))
        /\ out_of_order' = (out_of_order \/ \E k \in DOMAIN order : order[k] # k)
  /\ batch_i' = batch_i + batch_size
  /\ api_calls' = Requested("embeddings.create", TRUE)
  /\ UNCHANGED <<texts, batch_size, estate, docVars, upsertVars, apc, response,
                 crawlVars, urlVars, chunkVars, pipeVars>>

\* Lines 85-87: the except clause logs and raises again.
OnBatchErrorGoOn(st) ==
  IF st = "batching" THEN "returned" ELSE "returned_documents"
OnBatchError(st) == "raised"

\* Lines 76-79 raise.
EmbedBatchRaise ==
  /\ estate \in {"batching", "batching_documents"}
  /\ batch_i < Len(texts)
  /\ api_calls' = Requested("embeddings.create", FALSE)
  /\ estate' = OnBatchError(estate)
  /\ UNCHANGED <<texts, batch_size, batch_i, emb_list, out_of_order, docVars, upsertVars,
                 apc, response, crawlVars, urlVars, chunkVars, pipeVars>>

\* Line 89: the range is exhausted; return embeddings.
EmbedReturn ==
  /\ estate \in {"batching", "batching_documents"}
  /\ batch_i >= Len(texts)
  /\ estate' = IF estate = "batching" THEN "returned" ELSE "returned_documents"
  /\ UNCHANGED <<texts, batch_size, batch_i, emb_list, out_of_order, docVars, upsertVars,
                 apc, response, api_calls, crawlVars, urlVars, chunkVars,
                 pipeVars>>

\* Lines 104-108: embed_documents attaches the embeddings and returns.
EmbedAttach ==
  /\ estate = "returned_documents"
  /\ processed_data' = Attach(processed_data, emb_list)
  /\ estate' = "attached"
  /\ UNCHANGED <<docs_in, dstate, texts, batch_size, batch_i, emb_list,
                 out_of_order,
                 upsertVars, apc, response, api_calls,
                 crawlVars, urlVars, chunkVars, pipeVars>>

\* Either generate_embeddings_batch(texts, batch_size) is entered, or
\* embed_documents(documents) is about to be.
InitEmbed ==
  /\ CrawlIdle /\ UrlIdle /\ ChunkIdle /\ PipeIdle
  /\ docs_in = <<>> /\ dstate = "idle"
  /\ batch_i = 0
  /\ emb_list = <<>>
  /\ out_of_order = FALSE
  /\ \/ /\ estate = "batching"
        /\ texts \in SeqsUpTo(EmbedTexts, MaxTexts)
        /\ batch_size \in 1..MaxBatch
        /\ processed_data = <<>>
     \/ /\ estate = "ready"
        /\ texts = <<>>
        /\ batch_size = 1
        /\ \E contents \in SeqsUpTo(EmbedTexts, MaxTexts) :
              processed_data =
                EntriesOf([url |-> base_url, title |-> "Test Page 1"], contents)
  /\ upsert_size = 1 /\ upsert_i = 0 /\ vectors_to_upsert = <<>>
  /\ sent = <<>>
  /\ index = {} /\ ustate = "idle"
  /\ apc = "idle" /\ response = <<>> /\ api_calls = <<>>

NextEmbed ==
  EmbedStart \/ EmbedBatchOk \/ EmbedBatchRaise \/ EmbedReturn \/ EmbedAttach

SpecEmbed == InitEmbed /\ [][NextEmbed]_vars

(***************************************************************************)
(* VectorDatabase.upsert_vectors (vector_db.py 41-76): the documents are   *)
(* sent to the index in batches; a request is answered or raises.          *)
(***************************************************************************)
\* Line 41: batch_size: int = 100
DefaultUpsertSize == 100

\* Line 53: doc_id = f"{doc['url']}#{doc['chunk_index']}"
VectorId(doc) == doc.url \o <<"#", ToString(doc.chunk_index)>>

\* Lines 56-64: vector = (doc_id, doc['embedding'], metadata)
VectorOf(doc) ==
  [id |-> VectorId(doc), values |-> doc.embedding,
   metadata |-> [url |-> doc.url, title |-> doc.title,
                 content |-> doc.content, chunk_index |-> doc.chunk_index]]

\* Line 68, tested after a vector was appended: the batch that starts after
\* the first done documents ends when it holds size vectors, so with its first
\* vector for a size below 1, or with the last document.
BatchEndWhenFull(docs, done, size) ==
  Min(done + (IF size >= 1 THEN size + 1 ELSE 1), Len(docs))
BatchEnd(docs, done, size) ==
  Min(done + (IF size >= 1 THEN size ELSE 1), Len(docs))

VectorsOf(docs, done, size) ==
  [k \in 1..(BatchEnd(docs, done, size) - done) |-> VectorOf(docs[done + k])]

\* index.upsert(vectors=...): a vector replaces the one stored under its id;
\* of two vectors of a batch with one id the later one stays.
Upserted(stored, vectors) ==
  {v \in stored : \A k \in 1..Len(vectors) : vectors[k].id # v.id}
    \cup {vectors[k] : k \in {m \in 1..Len(vectors) :
                               \A n \in (m + 1)..Len(vectors) :
                                  vectors[n].id # vectors[m].id}}

\* Lines 51-73: documents up to the end of a batch, and the request answered.
UpsertBatchOk ==
  /\ ustate = "upserting"
  /\ upsert_i < Len(processed_data)
  /\ index' = Upserted(index, VectorsOf(processed_data, upsert_i, upsert_size))
  /\ vectors_to_upsert' = <<>>
  /\ sent' = Append(sent, VectorsOf(processed_data, upsert_i, upsert_size))
  /\ upsert_i' = BatchEnd(processed_data, upsert_i, upsert_size)
  /\ api_calls' = Requested("index.upsert", TRUE)
  /\ UNCHANGED <<upsert_size, ustate, docVars, embedVars, apc, response,
                 crawlVars, urlVars, chunkVars, pipeVars>>

\* Line 70 raises: lines 74-76 log and raise again.
UpsertBatchRaise ==
  /\ ustate = "upserting"
  /\ upsert_i < Len(processed_data)
  /\ vectors_to_upsert' = VectorsOf(processed_data, upsert_i, upsert_size)
  /\ sent' = Append(sent, VectorsOf(processed_data, upsert_i, upsert_size))
  /\ upsert_i' = BatchEnd(processed_data, upsert_i, upsert_size)
  /\ api_calls' = Requested("index.upsert", FALSE)
  /\ ustate' = "raised"
  /\ UNCHANGED <<upsert_size, index, docVars, embedVars, apc, response,
                 crawlVars, urlVars, chunkVars, pipeVars>>

\* The loop of line 51 is over.
UpsertReturn ==
  /\ ustate = "upserting"
  /\ upsert_i >= Len(processed_data)
  /\ ustate' = "returned"
  /\ UNCHANGED <<upsert_size, upsert_i, vectors_to_upsert, sent, index, docVars,
                 embedVars, apc, response, api_calls,
                 crawlVars, urlVars, chunkVars, pipeVars>>

\* upsert_vectors called on its own: documents that carry their embeddings,
\* and any batch_size the caller may pass.
MaxUpsertDocs == 3
MaxUpsertBatch == 2

UpsertDocs ==
  { WithEmbedding([url |-> base_url, title |-> "Test Page 1", content |-> c,
                   chunk_index |-> n, total_chunks |-> 2], Vec(c)) :
      c \in EmbedTexts, n \in 0..1 }

InitUpsert ==
  /\ CrawlIdle /\ UrlIdle /\ ChunkIdle /\ PipeIdle
  /\ docs_in = <<>> /\ dstate = "idle"
  /\ processed_data \in SeqsUpTo(UpsertDocs, MaxUpsertDocs)
  /\ texts = <<>> /\ batch_size = 1 /\ batch_i = 0 /\ emb_list = <<>>
  /\ out_of_order = FALSE
  /\ estate = "idle"
  /\ upsert_size \in 0..MaxUpsertBatch
  /\ upsert_i = 0
  /\ vectors_to_upsert = <<>>
  /\ sent = <<>>
  /\ index = {}
  /\ ustate = "upserting"
  /\ apc = "idle" /\ response = <<>> /\ api_calls = <<>>

NextUpsert == UpsertBatchOk \/ UpsertBatchRaise \/ UpsertReturn

SpecUpsert == InitUpsert /\ [][NextUpsert]_vars

(***************************************************************************)
(* crawl_website, the /api/crawl handler (api.py 107-166), on a request    *)
(* that passed the checks of lines 122-131.                                *)
(***************************************************************************)
\* TextCleaner(): chunk_size = 500, overlap = 50 (text_cleaner.py line 17).
TextCleanerChunkSize == 500
TextCleanerOverlap == 50

\* What a fetched page's text can be: a few words, or fifty characters.
ApiPageTexts == {<<"a", " ", "b", ".">>, Repeat(TenChars, 5)}

CrawledDocs(crawled, contents) ==
  [k \in 1..Len(crawled) |->
     [url |-> crawled[k], title |-> "Test Page 1", content |-> contents[k]]]

Answer(code, status, crawled, embedded) ==
  << [code |-> code, status |-> status, pages_crawled |-> Len(crawled),
      chunks_created |-> Len(embedded)] >>

\* Lines 137-148: crawl() has returned; clean and chunk the pages; construct
\* the embeddings generator.
ApiProcess ==
  /\ apc = "crawl"
  /\ pc = "done"
  /\ \E contents \in [1..Len(crawled_data) -> PageTextsOf(ApiPageTexts)] :
        /\ docs_in' = CrawledDocs(crawled_data, contents)
        /\ processed_data' =
             process_documents(CrawledDocs(crawled_data, contents), 1,
                               TextCleanerChunkSize, TextCleanerOverlap, <<>>)
  /\ dstate' = "processed"
  /\ estate' = "ready"
  /\ apc' = "embed"
  /\ UNCHANGED <<texts, batch_size, batch_i, emb_list, out_of_order, upsertVars, response,
                 api_calls, crawlVars, urlVars, chunkVars, pipeVars>>

\* Lines 149-153: embed_documents has returned; construct the vector database
\* and enter upsert_vectors.
ApiStore ==
  /\ apc = "embed"
  /\ estate = "attached"
  /\ upsert_size' = DefaultUpsertSize
  /\ upsert_i' = 0
  /\ vectors_to_upsert' = <<>>
  /\ sent' = <<>>
  /\ ustate' = "upserting"
  /\ apc' = "store"
  /\ UNCHANGED <<index, docVars, embedVars, response, api_calls,
                 crawlVars, urlVars, chunkVars, pipeVars>>

\* Lines 155-162: get_index_stats answers; 200 with status success.
ApiStatsOk ==
  /\ apc = "store"
  /\ ustate = "returned"
  /\ api_calls' = Requested("describe_index_stats", TRUE)
  /\ response' = Answer(200, "success", crawled_data, processed_data)
  /\ apc' = "done"
  /\ UNCHANGED <<docVars, embedVars, upsertVars,
                 crawlVars, urlVars, chunkVars, pipeVars>>

\* Line 155 raises: lines 164-166.
ApiStatsRaise ==
  /\ apc = "store"
  /\ ustate = "returned"
  /\ api_calls' = Requested("describe_index_stats", FALSE)
  /\ response' = Answer(500, "error", <<>>, <<>>)
  /\ apc' = "done"
  /\ UNCHANGED <<docVars, embedVars, upsertVars,
                 crawlVars, urlVars, chunkVars, pipeVars>>

\* Lines 164-166: an exception of embed_documents or upsert_vectors; 500.
ApiError ==
  /\ \/ apc = "embed" /\ estate = "raised"
     \/ apc = "store" /\ ustate = "raised"
  /\ response' = Answer(500, "error", <<>>, <<>>)
  /\ apc' = "done"
  /\ UNCHANGED <<docVars, embedVars, upsertVars, api_calls,
                 crawlVars, urlVars, chunkVars, pipeVars>>

\* Line 136: the crawler is constructed and crawl() is entered.
InitApiOn(sites, caps) ==
  /\ CrawlStartOn(sites, caps) /\ UrlIdle /\ ChunkIdle /\ PipeIdle
  /\ docs_in = <<>> /\ processed_data = <<>> /\ dstate = "idle"
  /\ texts = <<>> /\ batch_size = 1 /\ batch_i = 0 /\ emb_list = <<>>
  /\ out_of_order = FALSE
  /\ estate = "idle"
  /\ upsert_size = 1 /\ upsert_i = 0 /\ vectors_to_upsert = <<>>
  /\ sent = <<>>
  /\ index = {} /\ ustate = "idle"
  /\ apc = "crawl" /\ response = <<>> /\ api_calls = <<>>

InitApi == InitApiOn({{}}, 0..MaxPagesCap)

NextApi ==
  \/ Dequeue \/ FetchOk \/ FetchFail \/ Finish
  \/ ApiProcess
  \/ EmbedStart \/ EmbedBatchOk \/ EmbedBatchRaise \/ EmbedReturn \/ EmbedAttach
  \/ ApiStore
  \/ UpsertBatchOk \/ UpsertBatchRaise \/ UpsertReturn
  \/ ApiStatsOk \/ ApiStatsRaise \/ ApiError

SpecApi == InitApi /\ [][NextApi]_vars

(***************************************************************************)
(* IndexingPipeline.run (pipeline.py 40-101) on a freshly constructed      *)
(* pipeline: crawl, clean and chunk, embed, store, write the manifest.     *)
(* The embedding generator and the vector database the pipeline calls are  *)
(* collaborators: a call returns or raises.                                *)
(***************************************************************************)
\* What a fetched page's text can be: blank, or some words.
PageContents == {<<" ">>, <<"a", " ", " ", "b">>}

\* metadata.json as an earlier run left it, and as this run writes it.
EarlierManifest ==
  [timestamp |-> "earlier", total_pages_crawled |-> 1, total_chunks |-> 1]

NewManifest(crawled, docs) ==
  [timestamp |-> "now", total_pages_crawled |-> Len(crawled),
   total_chunks |-> Len(docs)]

\* Line 51: if not pages
NoPagesNever(crawled) == FALSE
NoPages(crawled) == crawled = <<>>

\* Line 64: f"doc_{idx}_{chunk_idx}", the two numbers in decimal.
RECURSIVE Decimal(_)
Decimal(n) ==
  IF n < 10 THEN <<ToString(n)>> ELSE Append(Decimal(n \div 10), ToString(n % 10))

DocIdString(id) ==
  <<"d", "o", "c", "_">> \o Decimal(id[2]) \o <<"_">> \o Decimal(id[3])

\* Lines 63-70: the documents of the page at index idx.
DocsOfPageZero(idx, source, content) ==
  [chunk_idx \in 1..Len(process_content(content)) |->
     [id |-> <<"doc", 0, chunk_idx - 1>>,
      content |-> process_content(content)[chunk_idx],
      source |-> source]]
DocsOfPage(idx, source, content) ==
  [chunk_idx \in 1..Len(process_content(content)) |->
     [id |-> <<"doc", idx, chunk_idx - 1>>,
      content |-> process_content(content)[chunk_idx],
      source |-> source]]

\* Lines 57-70: the loop over enumerate(pages).
RECURSIVE BuildDocuments(_, _, _)
BuildDocuments(crawled, idx, docs) ==
  IF idx >= Len(crawled) THEN docs
  ELSE BuildDocuments(crawled, idx + 1,
         docs \o DocsOfPage(idx, crawled[idx + 1].url, crawled[idx + 1].content))

ContentsOf(docs) == [i \in 1..Len(docs) |-> docs[i].content]

\* generate_embeddings as the pipeline uses it: one vector per text, in the
\* order of the texts.
generate_embeddings(chunk_texts) ==
  [i \in 1..Len(chunk_texts) |-> <<"vec", chunk_texts[i]>>]

\* add_documents as the pipeline uses it: every document is stored under its
\* id with its vector, replacing what the id held.
add_documents(db, docs, vectors) ==
  {r \in db : \A i \in 1..Len(docs) : r.id # docs[i].id}
    \cup {[id |-> docs[i].id, content |-> docs[i].content,
           embedding |-> IF i <= Len(vectors) THEN vectors[i] ELSE <<>>] :
          i \in 1..Len(docs)}

\* run() has no try/except: an exception of a stage leaves run() at once.
AfterStageErrorSwallowed(next_stage) == next_stage
AfterStageError(next_stage) == "done"

Called(op, ok) == Append(calls, [op |-> op, ok |-> ok])

\* Lines 48-53: crawl() has returned; no page ends the run with False.
PipeCrawlReturn ==
  /\ ppc = "crawl"
  /\ pc = "done"
  /\ \E contents \in [1..Len(crawled_data) -> PageTextsOf(PageContents)] :
        pages' = CrawledDocs(crawled_data, contents)
  /\ IF NoPages(crawled_data)
     THEN ppc' = "done" /\ result' = "False"
     ELSE ppc' = "chunk" /\ result' = result
  /\ UNCHANGED <<documents, all_chunks, embeddings, store, manifest, calls,
                 crawlVars, urlVars, chunkVars, apiVars>>

\* Lines 57-72: clean and chunk every page.
PipeChunk ==
  /\ ppc = "chunk"
  /\ documents' = BuildDocuments(pages, 0, <<>>)
  /\ all_chunks' = ContentsOf(BuildDocuments(pages, 0, <<>>))
  /\ ppc' = "embed"
  /\ UNCHANGED <<result, pages, embeddings, store, manifest, calls,
                 crawlVars, urlVars, chunkVars, apiVars>>

\* Line 76: generate_embeddings returns.
PipeEmbedOk ==
  /\ ppc = "embed"
  /\ embeddings' = generate_embeddings(all_chunks)
  /\ calls' = Called("generate_embeddings", TRUE)
  /\ ppc' = "store"
  /\ UNCHANGED <<result, pages, documents, all_chunks, store, manifest,
                 crawlVars, urlVars, chunkVars, apiVars>>

\* Line 76: generate_embeddings raises.
PipeEmbedRaise ==
  /\ ppc = "embed"
  /\ calls' = Called("generate_embeddings", FALSE)
  /\ ppc' = AfterStageError("store")
  /\ result' = IF ppc' = "done" THEN "raised" ELSE result
  /\ UNCHANGED <<pages, documents, all_chunks, embeddings, store, manifest,
                 crawlVars, urlVars, chunkVars, apiVars>>

\* Line 81: add_documents returns.
PipeAddOk ==
  /\ ppc = "store"
  /\ store' = add_documents(store, documents, embeddings)
  /\ calls' = Called("add_documents", TRUE)
  /\ ppc' = "persist"
  /\ UNCHANGED <<result, pages, documents, all_chunks, embeddings, manifest,
                 crawlVars, urlVars, chunkVars, apiVars>>

\* Line 81: add_documents raises.
PipeAddRaise ==
  /\ ppc = "store"
  /\ calls' = Called("add_documents", FALSE)
  /\ ppc' = AfterStageError("persist")
  /\ result' = IF ppc' = "done" THEN "raised" ELSE result
  /\ UNCHANGED <<pages, documents, all_chunks, embeddings, store, manifest,
                 crawlVars, urlVars, chunkVars, apiVars>>

\* Line 82: persist returns.
PipePersistOk ==
  /\ ppc = "persist"
  /\ calls' = Called("persist", TRUE)
  /\ ppc' = "manifest"
  /\ UNCHANGED <<result, pages, documents, all_chunks, embeddings, store,
                 manifest, crawlVars, urlVars, chunkVars, apiVars>>

\* Line 82: persist raises.
PipePersistRaise ==
  /\ ppc = "persist"
  /\ calls' = Called("persist", FALSE)
  /\ ppc' = AfterStageError("manifest")
  /\ result' = IF ppc' = "done" THEN "raised" ELSE result
  /\ UNCHANGED <<pages, documents, all_chunks, embeddings, store, manifest,
                 crawlVars, urlVars, chunkVars, apiVars>>

\* Lines 89-101: metadata.json is opened with mode 'w' and written; True.
PipeWriteManifest ==
  /\ ppc = "manifest"
  /\ manifest' = <<NewManifest(pages, documents)>>
  /\ calls' = Called("write_manifest", TRUE)
  /\ ppc' = "done"
  /\ result' = "True"
  /\ UNCHANGED <<pages, documents, all_chunks, embeddings, store,
                 crawlVars, urlVars, chunkVars, apiVars>>

\* Lines 97-98: makedirs or open raises; the file is as it was.
PipeWriteManifestRaise ==
  /\ ppc = "manifest"
  /\ calls' = Called("write_manifest", FALSE)
  /\ ppc' = "done"
  /\ result' = "raised"
  /\ UNCHANGED <<pages, documents, all_chunks, embeddings, store, manifest,
                 crawlVars, urlVars, chunkVars, apiVars>>

\* Lines 19-38 and 40-47: the pipeline is constructed and run() is entered;
\* db_path holds no manifest or the manifest of an earlier run.
InitPipeOn(sites, caps) ==
  /\ CrawlStartOn(sites, caps)
  /\ UrlIdle
  /\ ChunkIdle
  /\ ApiIdle
  /\ ppc = "crawl"
  /\ result = "none"
  /\ pages = <<>>
  /\ documents = <<>>
  /\ all_chunks = <<>>
  /\ embeddings = <<>>
  /\ store = {}
  /\ manifest \in {<<>>, <<EarlierManifest>>}
  /\ calls = <<>>

InitPipe == InitPipeOn({{}}, 0..MaxPagesCap)

NextPipe ==
  \/ Dequeue \/ FetchOk \/ FetchFail \/ Finish
  \/ PipeCrawlReturn \/ PipeChunk
  \/ PipeEmbedOk \/ PipeEmbedRaise
  \/ PipeAddOk \/ PipeAddRaise
  \/ PipePersistOk \/ PipePersistRaise
  \/ PipeWriteManifest \/ PipeWriteManifestRaise

SpecPipe == InitPipe /\ [][NextPipe]_vars

(***************************************************************************)
(* An ingestion run through either path: IndexingPipeline.run or the       *)
(* /api/crawl handler.                                                     *)
(***************************************************************************)
InitIngest == InitPipe \/ InitApi

NextIngest ==
  \/ Dequeue \/ FetchOk \/ FetchFail \/ Finish
  \/ PipeCrawlReturn \/ PipeChunk
  \/ PipeEmbedOk \/ PipeEmbedRaise
  \/ PipeAddOk \/ PipeAddRaise
  \/ PipePersistOk \/ PipePersistRaise
  \/ PipeWriteManifest \/ PipeWriteManifestRaise
  \/ ApiProcess
  \/ EmbedStart \/ EmbedBatchOk \/ EmbedBatchRaise \/ EmbedReturn \/ EmbedAttach
  \/ ApiStore
  \/ UpsertBatchOk \/ UpsertBatchRaise \/ UpsertReturn
  \/ ApiStatsOk \/ ApiStatsRaise \/ ApiError

SpecIngest == InitIngest /\ [][NextIngest]_vars

\* The end-to-end scenario: either path on a five-page site with max_pages 3.
InitScenario ==
  InitPipeOn(ScenarioSites, {3}) \/ InitApiOn(ScenarioSites, {3})

SpecScenario == InitScenario /\ [][NextIngest]_vars

(***************************************************************************)
(* Claims about the crawl loop.                                            *)
(***************************************************************************)
AttemptUrls == [i \in 1..Len(attempts) |-> attempts[i].url]

AllFetchesSucceeded == \A i \in 1..Len(attempts) : attempts[i].ok

\* The URLs reachable from the root over the eligible links of the site.
RECURSIVE ReachFrom(_)
ReachFrom(S) ==
  IF {e[2] : e \in {f \in edges : f[1] \in S}} \subseteq S THEN S
  ELSE ReachFrom(S \cup {e[2] : e \in {f \in edges : f[1] \in S}})

ReachableCount == Cardinality(ReachFrom({base_url}))

\* C1: with every fetch succeeding, a crawl of a fresh crawler over a site with
\* N URLs reachable from the root through policy-eligible links and a page cap
\* M ends with exactly min(N, M) URLs visited and min(N, M) pages returned, no
\* URL fetched twice.  (The claim as stated; the code breaks it.)
C1_VisitsMinOfReachableAndCap ==
  (pc = "done" /\ AllFetchesSucceeded) =>
     /\ Cardinality(visited_urls) = Min(ReachableCount, max_pages)
     /\ Len(crawled_data) = Min(ReachableCount, max_pages)
     /\ NoDuplicates(AttemptUrls)

\* C2: every URL is the target of at most one fetch attempt, failed or not; a
\* URL is in the visited set before its fetch is issued; a URL dequeued while
\* already visited is discarded without a fetch.
C2_State ==
  /\ NoDuplicates(AttemptUrls)
  /\ Range(AttemptUrls) \subseteq visited_urls
  /\ pc = "fetch" => (url \in visited_urls /\ url \notin Range(AttemptUrls))

C2_Step ==
  (pc = "loop" /\ LoopCondition /\ Head(to_visit) \in visited_urls)
     => (pc' # "fetch" /\ attempts' = attempts /\ visited_urls' = visited_urls)

C2_AtMostOneFetchAttemptPerUrl == []C2_State /\ [][C2_Step]_vars

\* C2 witness: a run in which a fetch failed and a queued duplicate was
\* discarded at dequeue time.
C2_Witness ==
  /\ pc = "done"
  /\ Len(skipped) >= 1
  /\ \E i \in 1..Len(attempts) : ~attempts[i].ok

\* C3: a failed fetch never ends the crawl: the failed page is not recorded,
\* the loop goes on with the frontier as it was, the pages returned are exactly
\* those whose fetch succeeded, and the run stops only on an empty frontier or
\* a reached page cap.
IsOk(a) == a.ok

C3_State ==
  /\ crawled_data = [i \in 1..Len(SelectSeq(attempts, IsOk)) |->
                       SelectSeq(attempts, IsOk)[i].url]
  /\ pc = "done" => (to_visit = <<>> \/ Cardinality(visited_urls) >= max_pages)

C3_Step ==
  (pc = "fetch" /\ Len(attempts') > Len(attempts) /\ ~attempts'[Len(attempts')].ok)
     => (pc' = "loop" /\ crawled_data' = crawled_data /\ to_visit' = to_visit)

C3_FailedFetchIsNotFatal == []C3_State /\ [][C3_Step]_vars

\* C3 witness: a finished run in which a page was fetched successfully after
\* another page's fetch had failed.
C3_Witness ==
  /\ pc = "done"
  /\ \E i, j \in 1..Len(attempts) : i < j /\ ~attempts[i].ok /\ attempts[j].ok

(***************************************************************************)
(* Claims about the URL policy.                                            *)
(***************************************************************************)
\* The host of a netloc: the netloc without userinfo and port.
IsHostToken(t) == t \notin {"u@", ":80", ":"}
HostOf(netloc) == SelectSeq(netloc, IsHostToken)

NoExcludedPattern(u) ==
  \A i \in 1..Len(u) :
     Lower(u[i]) \notin {".pdf", ".zip", ".exe", "login", "logout", "#"}

Chunked == cstate \in {"chunked", "chunked_raw"}

\* The last k characters of s, none for k = 0.
Suffix(s, k) == SubSeq(s, Len(s) - k + 1, Len(s))

IsPrefix(p, s) == Len(p) <= Len(s) /\ SubSeq(s, 1, Len(p)) = p

IsSingleSentence(chunk) == chunk \in Range(Sentences(input))

\* What line 88 carries into the next chunk: the last overlap characters of the
\* flushed chunk, and the whole chunk when overlap is 0 or exceeds its length.
CarriedLen(chunk) ==
  IF overlap = 0 \/ overlap > Len(chunk) THEN Len(chunk) ELSE overlap

\* A chunk made of the text carried over from the chunk before it, a space and
\* one sentence.
IsCarryPlusSentence(i) ==
  /\ i > 1
  /\ \E sentence \in Range(Sentences(input)) :
        chunks[i] = Suffix(chunks[i-1], CarriedLen(chunks[i-1]))
                      \o <<" ">> \o sentence

\* C5 as stated: every chunk has length <= chunk_size, except a chunk that is
\* one single sentence longer than chunk_size.
C5_WithinSizeOrSingleSentence ==
  Chunked =>
     \A i \in 1..Len(chunks) :
        Len(chunks[i]) <= chunk_size \/ IsSingleSentence(chunks[i])

\* C5 amended: every chunk has length <= chunk_size, except a single sentence
\* longer than chunk_size and except a chunk started by a flush, which is the
\* text carried over from the previous chunk, a space and the one sentence
\* that caused the flush.
C5_WithinSizeOrSentenceOrCarry ==
  Chunked =>
     \A i \in 1..Len(chunks) :
        \/ Len(chunks[i]) <= chunk_size
        \/ IsSingleSentence(chunks[i])
        \/ IsCarryPlusSentence(i)

\* C5 witness: with a positive overlap, a chunk longer than chunk_size that is
\* not a single sentence.
C5_Witness ==
  /\ Chunked
  /\ overlap > 0
  /\ \E i \in 2..Len(chunks) :
        /\ Len(chunks[i]) > chunk_size
        /\ ~IsSingleSentence(chunks[i])
        /\ \A sentence \in Range(Sentences(input)) : Len(sentence) <= chunk_size

\* C6: each chunk after the first starts with exactly the last
\* min(overlap, len) characters of the chunk before it, then a space and the
\* sentence that caused the flush; with overlap = 0 nothing is carried over.
\* (The claim as stated; the code breaks it for overlap = 0.)
C6_NextChunkStartsWithOverlap ==
  Chunked =>
     \A i \in 1..(Len(chunks) - 1) :
        \E sentence \in Range(Sentences(input)) :
           IsPrefix(Suffix(chunks[i], Min(overlap, Len(chunks[i])))
                      \o <<" ">> \o sentence,
                    chunks[i+1])

\* C7: the chunk sequence of a cleaned text is non-empty if and only if the
\* text is non-empty; a text made only of sentence punctuation gives a chunk.
\* (The claim as stated; the code breaks it.)
C7_NonEmptyIffTextNonEmpty ==
  cstate = "chunked" => (chunks # <<>> <=> input # <<>>)

\* C8: a non-empty cleaned text shorter than chunk_size gives exactly one
\* chunk, equal to the text.  (The claim as stated; the code breaks it.)
C8_ShortTextIsOneEqualChunk ==
  (cstate = "chunked" /\ input # <<>> /\ Len(input) < chunk_size)
     => chunks = <<input>>

(***************************************************************************)
(* Claims about the indexing pipeline.                                     *)
(***************************************************************************)
CallOk(op) == [op |-> op, ok |-> TRUE]

\* The calls of a run whose embedding and storage stages both succeeded.
StagesDone ==
  <<CallOk("generate_embeddings"), CallOk("add_documents"), CallOk("persist")>>

ManifestWrites == {i \in 1..Len(calls) : calls[i].op = "write_manifest"}

SomeStageFailed == \E i \in 1..Len(calls) : ~calls[i].ok

\* C9: when the crawl yields zero pages, run() ends with the no-content
\* outcome (False), having called neither the embedding generator nor the
\* vector database and having written no manifest: the file is as it was.
C9_State ==
  (pc = "done" /\ crawled_data = <<>>) =>
     /\ ppc \in {"crawl", "done"}
     /\ calls = <<>>
     /\ ppc = "done" => (result = "False" /\ pages = <<>>)

C9_Step ==
  (pc = "done" /\ crawled_data = <<>>) =>
     (manifest' = manifest /\ store' = store /\ embeddings' = embeddings)

C9_NoPagesEndsRunUntouched == []C9_State /\ [][C9_Step]_vars

\* C9 witness: the root's fetch failed, run() has returned False and the
\* manifest of an earlier run is still there.
C9_Witness ==
  /\ ppc = "done"
  /\ result = "False"
  /\ crawled_data = <<>>
  /\ Len(attempts) = 1
  /\ manifest = <<EarlierManifest>>

\* C10: run() writes the manifest at most once, and only after the crawl, the
\* chunking, the embedding and the storage have all completed without error;
\* once the embedding or the storage stage has failed the manifest is not
\* written, and a manifest left by an earlier run stays as it was.
C10_State ==
  /\ Cardinality(ManifestWrites) <= 1
  /\ \A i \in ManifestWrites :
        /\ SubSeq(calls, 1, i - 1) = StagesDone
        /\ pages # <<>>
        /\ Len(all_chunks) = Len(documents)
  /\ result = "True" <=> (calls = Append(StagesDone, CallOk("write_manifest")))

C10_Step ==
  /\ manifest' # manifest =>
        /\ ppc = "manifest"
        /\ calls = StagesDone
        /\ calls' = Append(StagesDone, CallOk("write_manifest"))
        /\ result' = "True"
  /\ SomeStageFailed => (manifest' = manifest /\ calls' = calls)

C10_ManifestOnlyAfterAllStages == []C10_State /\ [][C10_Step]_vars

\* C10 witness: the embedding succeeded, the storage failed, run() has ended
\* with the exception and the manifest of an earlier run is unchanged.
C10_Witness ==
  /\ ppc = "done"
  /\ result = "raised"
  /\ calls = <<CallOk("generate_embeddings"),
               [op |-> "add_documents", ok |-> FALSE]>>
  /\ manifest = <<EarlierManifest>>

(***************************************************************************)
(* Claims about the two ingestion paths.                                   *)
(***************************************************************************)
StoreCalls == {i \in 1..Len(calls) : calls[i].op \in {"add_documents", "persist"}}

UpsertRequests == {i \in 1..Len(api_calls) : api_calls[i].op = "index.upsert"}

EmbedFailures ==
  {i \in 1..Len(api_calls) :
     api_calls[i].op = "embeddings.create" /\ ~api_calls[i].ok}

HasItsEmbedding(doc) ==
  "embedding" \in DOMAIN doc /\ doc.embedding = Vec(doc.content)

\* C11: in both ingestion paths the storage stage starts only after the
\* embedding stage has succeeded for every chunk of the run: a chunk is handed
\* to the store with its embedding only, and once an embedding request has
\* failed no chunk of the run reaches the store.
C11_PipelinePath ==
  /\ \A i \in StoreCalls :
        /\ calls[1] = CallOk("generate_embeddings")
        /\ Len(embeddings) = Len(documents)
  /\ \A r \in store :
        \E k \in 1..Len(documents) :
           /\ documents[k].id = r.id
           /\ r.embedding = embeddings[k]
           /\ r.embedding = <<"vec", documents[k].content>>
  /\ (calls # <<>> /\ ~calls[1].ok) => (store = {} /\ StoreCalls = {})

C11_ApiPath ==
  /\ (apc = "store" \/ UpsertRequests # {}) =>
        /\ EmbedFailures = {}
        /\ Len(emb_list) = Len(processed_data)
        /\ \A k \in 1..Len(processed_data) : HasItsEmbedding(processed_data[k])
  /\ \A v \in index : v.values = Vec(v.metadata.content)
  /\ (EmbedFailures # {} \/ estate = "raised") =>
        (index = {} /\ UpsertRequests = {} /\ apc \in {"embed", "done"})

C11_StoreOnlyAfterEmbedding == C11_PipelinePath /\ C11_ApiPath

\* C11 witness: the /api/crawl handler has answered after an embedding request
\* for a chunk failed, and the index is empty.
C11_Witness ==
  /\ apc = "done"
  /\ EmbedFailures # {}
  /\ processed_data # <<>>
  /\ index = {}

\* C12: in every ingestion path a page whose cleaned text is shorter than 50
\* characters is dropped before chunking: process_documents returns no entry
\* for it, and step 2 of IndexingPipeline.run builds no document from it.
PageOfDocument(doc) == doc.id[2] + 1

C12_ProcessDocumentsPath ==
  apc \notin {"idle", "crawl"} =>
    \A k \in 1..Len(docs_in) :
      TooShort(clean_text(docs_in[k].content)) =>
        \A e \in 1..Len(processed_data) : processed_data[e].url # docs_in[k].url

C12_PipelinePath ==
  ppc \notin {"idle", "crawl", "chunk"} =>
    \A k \in 1..Len(pages) :
      TooShort(cleaner_clean_text(pages[k].content)) =>
        \A d \in 1..Len(documents) : PageOfDocument(documents[d]) # k

C12_ShortPagesDropped == C12_ProcessDocumentsPath /\ C12_PipelinePath

(***************************************************************************)
(* Claims about TextCleaner.process_documents.                             *)
(***************************************************************************)
IsKeptPage(doc) == Len(clean_text(doc.content)) >= 50

KeptPages == SelectSeq(docs_in, IsKeptPage)

ChunksOfPage(doc) == chunk_text(clean_text(doc.content), chunk_size, overlap)

RECURSIVE EntriesBefore(_)
EntriesBefore(j) ==
  IF j <= 1 THEN 0
  ELSE EntriesBefore(j - 1) + Len(ChunksOfPage(KeptPages[j - 1]))

\* C13: the entries process_documents returns stand in page order; those of
\* one kept page with k chunks carry chunk_index 0..k-1 in order, all with
\* total_chunks = k and with the url and title of that page.
C13_EntriesNumberedPerPage ==
  dstate = "processed" =>
    /\ Len(processed_data) = EntriesBefore(Len(KeptPages) + 1)
    /\ \A j \in 1..Len(KeptPages) :
         \A c \in 1..Len(ChunksOfPage(KeptPages[j])) :
           /\ processed_data[EntriesBefore(j) + c].chunk_index = c - 1
           /\ processed_data[EntriesBefore(j) + c].total_chunks =
                Len(ChunksOfPage(KeptPages[j]))
           /\ processed_data[EntriesBefore(j) + c].url = KeptPages[j].url
           /\ processed_data[EntriesBefore(j) + c].title = KeptPages[j].title

\* C13 witness: two pages were kept, the first cut into several chunks, and
\* the entries of the second follow those of the first.
C13_Witness ==
  /\ dstate = "processed"
  /\ Len(KeptPages) = 2
  /\ Len(ChunksOfPage(KeptPages[1])) >= 2
  /\ KeptPages[1].url # KeptPages[2].url
  /\ Len(processed_data) > Len(ChunksOfPage(KeptPages[1]))

(***************************************************************************)
(* Claims about EmbeddingsGenerator.                                       *)
(***************************************************************************)
\* C15: generate_embeddings_batch returns, for every input list and batch
\* size, exactly one embedding per input text, in input order, whatever the
\* order in which the provider returned the items of a batch; and
\* embed_documents attaches to document i the embedding of its own content.
C15_OneEmbeddingPerTextInOrder ==
  /\ estate \in {"returned", "returned_documents", "attached"} =>
        /\ Len(emb_list) = Len(texts)
        /\ \A k \in 1..Len(texts) : emb_list[k] = Vec(texts[k])
  /\ estate = "attached" =>
        \A i \in 1..Len(processed_data) :
           /\ "embedding" \in DOMAIN processed_data[i]
           /\ processed_data[i].embedding = Vec(processed_data[i].content)

\* C15 witness: three texts, not all equal, went out in batches of two, a
\* batch came back out of index order, and the call has returned.
C15_Witness ==
  /\ estate = "returned"
  /\ Len(texts) = 3
  /\ batch_size = 2
  /\ texts[1] # texts[2]
  /\ out_of_order

(***************************************************************************)
(* Claims about TextCleaner.clean_text.                                    *)
(***************************************************************************)
\* C17: the text clean_text returns holds no run of two or more whitespace
\* characters and neither starts nor ends with whitespace.
C17_NoSpaceRunNoOuterSpace ==
  cstate = "cleaned" =>
    /\ \A i \in 1..(Len(input) - 1) : ~(IsSpace(input[i]) /\ IsSpace(input[i + 1]))
    /\ input # <<>> => (~IsSpace(input[1]) /\ ~IsSpace(input[Len(input)]))

(***************************************************************************)
(* Claims about the /api/crawl handler.                                    *)
(***************************************************************************)
\* C19: when crawl() returns no page, /api/crawl answers with an error and
\* makes no request to the embedding provider or to the vector store.
C19_EmptyCrawlIsFailure ==
  (pc = "done" /\ crawled_data = <<>>) =>
    /\ api_calls = <<>>
    /\ apc = "done" => (response # <<>> /\ response[1].status = "error")

(***************************************************************************)
(* Claims about repeated crawls.                                           *)
(***************************************************************************)
\* C18: every call of crawl(), a second call on the same crawler included,
\* starts from an empty visited set and an empty page sequence.
C18_EveryCrawlStartsEmpty ==
  [][runs' # runs => (visited_urls' = {} /\ crawled_data' = <<>>)]_vars

(***************************************************************************)
(* Claims about the order of the crawl.                                    *)
(***************************************************************************)
EnqueuePosition(u) == CHOOSE k \in 1..Len(first_enqueued) : first_enqueued[k] = u

\* The URLs within d links of the root, over the eligible links of the pages
\* served.
RECURSIVE Within(_)
Within(d) ==
  IF d = 0 THEN {base_url}
  ELSE Within(d - 1) \cup {e[2] : e \in {f \in edges : f[1] \in Within(d - 1)}}

LinkDistance(u) ==
  CHOOSE d \in 0..Cardinality(edges) :
    u \in Within(d) /\ \A k \in 0..(d - 1) : u \notin Within(k)

C20_FifoOrder ==
  \A i, j \in 1..Len(crawled_data) :
    i < j => EnqueuePosition(crawled_data[i]) < EnqueuePosition(crawled_data[j])

C20_LevelOrder ==
  \A i, j \in 1..Len(crawled_data) :
    i < j => LinkDistance(crawled_data[i]) <= LinkDistance(crawled_data[j])

\* C20: the frontier is first-in first-out: the pages are returned in the order
\* in which their URLs were first enqueued, so no page at link distance d+1 is
\* fetched before a fetched page at distance d.
C20_FifoLevelByLevel == C20_FifoOrder /\ C20_LevelOrder

(***************************************************************************)
(* Claims about the end-to-end scenario.                                   *)
(***************************************************************************)
\* The scenario: a five-page site, max_pages 3, no fetch has failed.
ScenarioRun == site \in ScenarioSites /\ max_pages = 3 /\ AllFetchesSucceeded

DocumentsOfPage(k) == {d \in 1..Len(documents) : PageOfDocument(documents[d]) = k}

C16_CrawlsThreePages ==
  (ScenarioRun /\ pc = "done") => Len(crawled_data) = 3

C16_PipelineChunks ==
  (ScenarioRun /\ ppc \notin {"idle", "crawl", "chunk"}) =>
    /\ Len(pages) = 3
    /\ Len(documents) = 9
    /\ \A k \in 1..3 : Cardinality(DocumentsOfPage(k)) = 3

C16_ApiChunks ==
  (ScenarioRun /\ apc \notin {"idle", "crawl"}) =>
    /\ Len(docs_in) = 3
    /\ Len(processed_data) = 9
    /\ \A e \in 1..Len(processed_data) : processed_data[e].total_chunks = 3

C16_ApiPages ==
  (ScenarioRun /\ apc \notin {"idle", "crawl"}) => Len(docs_in) = 3

DocumentIds == [d \in 1..Len(documents) |-> DocIdString(documents[d].id)]

VectorIds == [e \in 1..Len(processed_data) |-> VectorId(processed_data[e])]

\* C14: within one ingestion run no two chunks get the same store identifier:
\* the doc_{pageIndex}_{chunkIndex} ids IndexingPipeline.run builds are
\* pairwise distinct, and so are the '{url}#{chunk_index}' keys upsert_vectors
\* builds for the chunks of the pages crawl() returned, so that each chunk
\* stored is held under an identifier of its own.
C14_IdsUniqueWithinRun ==
  /\ NoDuplicates(DocumentIds)
  /\ NoDuplicates(VectorIds)
  /\ (calls # <<>> /\ calls[Len(calls)] = CallOk("add_documents")) =>
        Cardinality(store) = Len(documents)
  /\ ustate = "returned" => Cardinality(index) = Len(processed_data)

\* C14 witness: /api/crawl has stored the chunks of several pages with several
\* chunks each, one vector per chunk.
C14_Witness ==
  /\ apc = "done"
  /\ ustate = "returned"
  /\ Cardinality(index) = Len(processed_data)
  /\ \E e, g \in 1..Len(processed_data) :
        /\ processed_data[e].url # processed_data[g].url
        /\ processed_data[e].chunk_index = processed_data[g].chunk_index
  /\ \E e, g \in 1..Len(processed_data) :
        /\ processed_data[e].url = processed_data[g].url
        /\ processed_data[e].chunk_index # processed_data[g].chunk_index

(***************************************************************************)
(* Claims about what enters the frontier.                                  *)
(***************************************************************************)
FragmentFree(u) == \A i \in 1..Len(u) : u[i] # "#"

RootHostAndWebScheme(u) ==
  /\ ~urlparse(u, <<>>).raises
  /\ HostOf(urlparse(u, <<>>).netloc) = HostOf(base_domain)
  /\ LowerStr(urlparse(u, <<>>).scheme) \in {<<"http">>, <<"https">>}

\* C21: every URL link discovery puts into the frontier is fragment-free,
\* passes is_valid_url for the root domain and was not in the visited set when
\* it was enqueued; hence every URL fetched other than the root URL has the
\* root's host and an http or https scheme.
C21_State ==
  /\ \A k \in 1..Len(to_visit) :
        to_visit[k] # base_url =>
           (FragmentFree(to_visit[k]) /\ is_valid_url(to_visit[k]))
  /\ \A i \in 1..Len(attempts) :
        attempts[i].url # base_url => RootHostAndWebScheme(attempts[i].url)

C21_Step ==
  pc = "fetch" =>
    \A k \in (Len(to_visit) + 1)..Len(to_visit') :
       /\ FragmentFree(to_visit'[k])
       /\ is_valid_url(to_visit'[k])
       /\ to_visit'[k] \notin visited_urls

C21_FrontierHoldsEligibleUrlsOnly == []C21_State /\ [][C21_Step]_vars

\* C21 witness: a page linked the same URL with and without a fragment and
\* another domain; the URL was enqueued twice, fetched once, and nothing of
\* the other domain was fetched.
C21_Witness ==
  /\ pc = "done"
  /\ Len(skipped) >= 1
  /\ \E i \in 1..Len(attempts) : attempts[i].url # base_url
  /\ \E e \in edges : e[2] # base_url

(***************************************************************************)
(* Claims about the pacing of the crawl.                                   *)
(***************************************************************************)
\* C22: the inter-request delay is applied once at the end of every loop
\* iteration that issued a fetch, whether the fetch succeeded or failed, so
\* between two consecutive fetch attempts the delay has elapsed exactly once.
C22_DelayAfterEveryFetch ==
  /\ Len(delays) = Len(attempts)
  /\ \A i \in 1..Len(delays) : delays[i] = 1

C22_DelayAfterServedPage ==
  /\ Len(delays) = Len(attempts)
  /\ \A i \in 1..Len(delays) :
        delays[i] = IF attempts[i].ok /\ attempts[i].url \notin cut THEN 1 ELSE 0

(***************************************************************************)
(* Claims about the page cap.                                              *)
(***************************************************************************)
RecordedInVisited ==
  /\ NoDuplicates(crawled_data)
  /\ Range(crawled_data) \subseteq visited_urls

\* C23 as stated: in every state of a crawl run on a fresh crawler the visited
\* set holds at most max_pages URLs and the recorded pages have pairwise
\* distinct URLs that are all visited; so the fetch attempts, failed ones
\* included, and the pages returned never exceed max_pages, and with
\* max_pages <= 0 nothing is fetched.
C23_WithinMaxPages ==
  /\ Cardinality(visited_urls) <= max_pages
  /\ RecordedInVisited
  /\ Len(attempts) <= max_pages
  /\ Len(crawled_data) <= max_pages
  /\ max_pages <= 0 => attempts = <<>>

\* The cap as the loop of line 101 applies it: no URL at all for a max_pages
\* below zero.
EffectiveCap == IF max_pages > 0 THEN max_pages ELSE 0

\* C23 amended: the same with max(max_pages, 0) as the ceiling.
C23_WithinEffectiveCap ==
  /\ Cardinality(visited_urls) <= EffectiveCap
  /\ RecordedInVisited
  /\ Len(attempts) <= EffectiveCap
  /\ Len(crawled_data) <= EffectiveCap
  /\ max_pages <= 0 => (attempts = <<>> /\ visited_urls = {})

\* C23 witness: the cap ended a run with URLs still queued, one of the capped
\* fetch attempts having failed.
C23_Witness ==
  /\ pc = "done"
  /\ max_pages = 2
  /\ Len(attempts) = 2
  /\ to_visit # <<>>
  /\ Len(crawled_data) = 1

(***************************************************************************)
(* Claims about VectorDatabase.upsert_vectors.                             *)
(***************************************************************************)
RECURSIVE Flatten(_)
Flatten(batches) ==
  IF batches = <<>> THEN <<>> ELSE Head(batches) \o Flatten(Tail(batches))

NoUpsertFailed == \A i \in UpsertRequests : api_calls[i].ok

SentAllOnceInOrder ==
  /\ Flatten(sent) = [k \in 1..Len(processed_data) |-> VectorOf(processed_data[k])]
  /\ Len(sent) = Cardinality(UpsertRequests)
  /\ \A b \in 1..Len(sent) : sent[b] # <<>>
  /\ processed_data = <<>> => UpsertRequests = {}

\* C24 as stated: when no upsert call fails, upsert_vectors sends every input
\* document to the index exactly once, in input order, in batches of at most
\* batch_size documents, and returns with no document left unsent; for an
\* empty input it makes no upsert call.
C24_AllSentInBatchesOfBatchSize ==
  (ustate = "returned" /\ NoUpsertFailed) =>
    /\ SentAllOnceInOrder
    /\ vectors_to_upsert = <<>>
    /\ \A b \in 1..Len(sent) : Len(sent[b]) <= upsert_size

\* C24 amended: the same for a batch_size of at least 1; a batch_size below 1
\* sends the documents one by one.
C24_AllSentInBatchesOfAtLeastOne ==
  (ustate = "returned" /\ NoUpsertFailed) =>
    /\ SentAllOnceInOrder
    /\ vectors_to_upsert = <<>>
    /\ \A b \in 1..Len(sent) :
          Len(sent[b]) <= (IF upsert_size >= 1 THEN upsert_size ELSE 1)

\* C24 witness: three documents went out with batch_size 2, in a batch of two
\* and a batch of one, and the call returned.
C24_Witness ==
  /\ ustate = "returned"
  /\ NoUpsertFailed
  /\ upsert_size = 2
  /\ Len(processed_data) = 3
  /\ Len(sent) = 2
  /\ Len(sent[1]) = 2
  /\ Len(sent[2]) = 1

=============================================================================
